---- MODULE Spec2Model ----
(***************************************************************************)
(* The expense workflow of src/workflow.py and the retry loops of its two  *)
(* network clients (src/connectors/sheets_connector.py and                 *)
(* src/connectors/slack_connector.py), with the mail source of             *)
(* src/connectors/gmail_connector.py.                                      *)
(*                                                                         *)
(* run() is an asyncio coroutine.  Code between two awaits runs atomically *)
(* on the event loop; the functions handed to asyncio.to_thread run in     *)
(* worker threads, in parallel with the loop.  An action is the piece of a *)
(* coroutine from the completion of one await to the next await; the       *)
(* outcome of the awaited thread function is its input.  Such an action is *)
(* guarded by LoopFree: the loop can run it only while no coroutine is     *)
(* inside a blocking call on the loop's thread.  The steps a worker thread *)
(* takes on its own (a failed pass of sync_append's loop, _retry_sleep)    *)
(* carry no such guard.                                                    *)
(*                                                                         *)
(* The parser of src/connectors/expense_parser.py is a pure function of    *)
(* the raw email and of the list of steps; its three step functions and    *)
(* the model constructor are operators on text, and one call of parse or   *)
(* of a step function is a specification of its own (SpecParse).           *)
(*                                                                         *)
(* SpecTwoRuns is run_full_workflow of src/tools.py called twice over the  *)
(* same mailbox; SpecRetry and SpecRetryAny are one call of append_row or  *)
(* of send_notification alone, SpecCalls such calls alone or inside a run. *)
(***************************************************************************)
EXTENDS Integers, Sequences, FiniteSets, TLC

\* ------------------------------------------------------------------ bounds
\* Messages in the mailbox that match the query.
MaxItems == 6
\* Batches of up to SmallBatch items: the environment may fail for any item.
SmallBatch == 3
\* Larger batches: the environment may fail for at most MaxFlaky items.
MaxFlaky == 0
\* The fair specification: batches of up to LiveBatch items in which the
\* environment may fail for any item.
LiveBatch == 2
\* The retry specification draws max_retries from 0..MaxRetriesBound.
MaxRetriesBound == 3
\* The parser specification: bodies of up to MaxChunks pieces of text.
MaxChunks == 3
\* The parser specification: caller-supplied lists of up to MaxSteps steps.
MaxSteps == 4
\* The retry specification over every max_retries: values down to -MaxNegRetries.
MaxNegRetries == 1
\* The two-run specification: mailboxes of up to TwoRunBatch messages.
TwoRunBatch == 2

\* ------------------------------------------------------- program constants
\* asyncio.Semaphore(5)
SemCap == 5
\* max_retries: int = 3, the default both connectors are built with
DefaultMaxRetries == 3
\* backoff_factor: float = 0.5, in tenths of a second
BackoffTenths == 5
\* a response without a status code: getattr(exc.response, "status_code", None)
NoStatus == -1
\* the status of a call that succeeded
OK == 200

Items == 1..MaxItems

\* What one attempt of a remote call can answer: success, an error that
\* carries no status code, or an error with an HTTP status code.
ErrorStatuses == {NoStatus, 404, 429, 500, 599, 600}
Statuses == {OK} \cup ErrorStatuses

VARIABLES
    run,              \* position of run(): "start", "gather", "returned", "raised"
    listing,          \* outcome of the listing call: "pending", "ok", "failed"
    unread,           \* mailbox: ids of the messages that carry the UNREAD label
    flaky,            \* ids for which the environment may fail in this run
    raw_emails,       \* ids of the RawEmails fetch_unread_receipts returned
    pc,               \* pc[i]: position of the task of item i
    attempt,          \* attempt[i]: the local `attempt` of the call item i is in
    sem,              \* value of the semaphore
    worksheet_handle, \* GSpreadSheetsConnector._worksheet_handle is not None
    loop_blocked,     \* the item whose coroutine blocks the loop's thread, or 0
    parsed,           \* ids for which parse returned a ParsedExpense
    rows,             \* rows[i]: rows appended to the sheet for item i
    posts,            \* posts[i]: messages posted to the channel for item i
    reports,          \* reports[i]: error lines printed to stderr for item i
    prev,             \* what the previous run of the workflow left behind
    client,           \* retry specification: "sheets", "slack" or "none"
    max_retries,      \* retry specification: the connector's max_retries
    rpc,              \* retry specification: "call", "sleep", "returned", "raised"
    rattempt,         \* retry specification: the local `attempt`
    seen,             \* retry specification: statuses of the attempts made
    delays,           \* retry specification: the delays slept, in tenths of a second
    steps_arg,        \* parser: the `steps` argument of DefaultExpenseParser
    call,             \* parser: the function called: "parse" or a step function
    context,          \* parser: the context dict
    step_ix,          \* parser: the position of parse in self.steps
    ppc,              \* parser: "idle", "steps", "direct", "returned", "raised"
    ran,              \* parser: the names of the step functions called, in order
    output,           \* parser: the fields of the ParsedExpense, or the dict, returned
    raised            \* parser: the name of the exception raised, or ""

wfvars == <<run, listing, unread, flaky, raw_emails, pc, attempt, sem,
            worksheet_handle, loop_blocked, parsed, rows, posts, reports, prev>>
rvars == <<client, max_retries, rpc, rattempt, seen, delays>>
pvars == <<steps_arg, call, context, step_ix, ppc, ran, output, raised>>
vars == <<wfvars, rvars, pvars>>

\* ------------------------------------------------------------------- text
\* A str is the sequence of its code points; bytes are a sequence of 0..255.

\* The printable ASCII characters, from the space (32) to the tilde (126); the
\* double quote, the backslash and the grave accent are written by name.
Printable ==
    <<" ", "!", "QUOTE", "#", "$", "%", "&", "'", "(", ")", "*", "+", ",", "-", ".", "/",
      "0", "1", "2", "3", "4", "5", "6", "7", "8", "9", ":", ";", "<", "=", ">", "?",
      "@", "A", "B", "C", "D", "E", "F", "G", "H", "I", "J", "K", "L", "M", "N", "O",
      "P", "Q", "R", "S", "T", "U", "V", "W", "X", "Y", "Z", "[", "BACKSLASH", "]", "^", "_",
      "BACKTICK", "a", "b", "c", "d", "e", "f", "g", "h", "i", "j", "k", "l", "m", "n", "o",
      "p", "q", "r", "s", "t", "u", "v", "w", "x", "y", "z", "{", "|", "}", "~">>

\* The code point of a character written as a one-character string.
Ord(c) ==
    IF c = "\n" THEN 10
    ELSE IF c = "\r" THEN 13
    ELSE IF c = "\t" THEN 9
    ELSE 31 + (CHOOSE k \in 1..Len(Printable) : Printable[k] = c)

\* The str written as a tuple of one-character strings.
Str(s) == [k \in 1..Len(s) |-> Ord(s[k])]

\* s[a:b] of Python with 1-based inclusive positions a..b.
Slice(s, a, b) == IF a > b THEN <<>> ELSE SubSeq(s, a, b)

\* str.startswith at position p (1-based).
HasAt(t, p, w) ==
    /\ p >= 1
    /\ p + Len(w) - 1 <= Len(t)
    /\ \A k \in 1..Len(w) : t[p + k - 1] = w[k]

\* The code points of the digit zero of every decimal digit block of Unicode
\* (category Nd); a block is its zero and the nine code points after it.
DigitZeros ==
    {48, 1632, 1776, 1984, 2406, 2534, 2662, 2790, 2918, 3046, 3174, 3302,
     3430, 3558, 3664, 3792, 3872, 4160, 4240, 6112, 6160, 6470, 6608,
     6784, 6800, 6992, 7088, 7232, 7248, 42528, 43216, 43264, 43472, 43504,
     43600, 44016, 65296, 66720, 68912, 69734, 69872, 69942, 70096, 70384,
     70736, 70864, 71248, 71360, 71472, 71904, 72016, 72784, 73040, 73120,
     92768, 92864, 93008, 120782, 120792, 120802, 120812, 120822, 123200,
     123632, 125264, 130032}

\* \d of the re module on a str pattern: a Unicode decimal digit.
IsDigit(c) ==
    IF c < 128 THEN 48 <= c /\ c <= 57
    ELSE \E z \in DigitZeros : z <= c /\ c <= z + 9

\* int() of one decimal digit.
DigitValue(c) ==
    IF c < 128 THEN c - 48
    ELSE c - (CHOOSE z \in DigitZeros : z <= c /\ c <= z + 9)

\* [0-9]-style classes of a pattern: ASCII digits between lo and hi.
AsciiDigitIn(c, lo, hi) == 48 + lo <= c /\ c <= 48 + hi

\* \s of the re module on a str pattern, and str.isspace.
IsSpace(c) ==
    c \in (9..13) \cup (28..32) \cup {133, 160, 5760} \cup (8192..8202)
          \cup {8232, 8233, 8239, 8287, 12288}

\* The line boundaries of str.splitlines.
IsLineBreak(c) == c \in {10, 11, 12, 13, 28, 29, 30, 133, 8232, 8233}

\* `.` of the re module without DOTALL: anything but a newline.
IsDot(c) == c # 10

InClass(c, cls) ==
    IF cls = "d" THEN IsDigit(c) ELSE IF cls = "s" THEN IsSpace(c) ELSE IsDot(c)

\* The least element of a set of numbers that is not empty.
Least(S) == CHOOSE p \in S : \A q \in S : p <= q
Greatest(S) == CHOOSE p \in S : \A q \in S : p >= q

\* The first position from p on whose code point is not in the class cls
\* ("d": \d, "s": \s, ".": dot), Len(t) + 1 when there is none; and the number
\* of consecutive code points from p on that are in the class.
ClassEnd(t, p, cls) ==
    LET out == {q \in p..Len(t) : ~InClass(t[q], cls)}
    IN  IF out = {} THEN Len(t) + 1 ELSE Least(out)
SpanWhile(t, p, cls) == IF p > Len(t) \/ p < 1 THEN 0 ELSE ClassEnd(t, p, cls) - p

\* str.strip(): leading and trailing whitespace removed.
strip(t) ==
    LET ink == {q \in 1..Len(t) : ~IsSpace(t[q])}
    IN  IF ink = {} THEN <<>> ELSE SubSeq(t, Least(ink), Greatest(ink))

\* str.splitlines(): whether the list of lines is empty, and its first line.
FirstBreak(t) ==
    LET brk == {q \in 1..Len(t) : IsLineBreak(t[q])}
    IN  IF brk = {} THEN Len(t) + 1 ELSE Least(brk)
splitlines_empty(t) == t = <<>>
splitlines_first(t) == Slice(t, 1, FirstBreak(t) - 1)

\* str.upper() on ASCII letters.
upper(t) == [k \in 1..Len(t) |-> IF 97 <= t[k] /\ t[k] <= 122 THEN t[k] - 32 ELSE t[k]]

\* The number written by a run of decimal digits: int() of the run.
RECURSIVE DigitsValue(_)
DigitsValue(t) ==
    IF t = <<>> THEN 0 ELSE 10 * DigitsValue(SubSeq(t, 1, Len(t) - 1)) + DigitValue(t[Len(t)])

\* ------------------------------------------------------------ decode_body

\* bytes.translate of urlsafe_b64decode, then the value of a character of the
\* base64 alphabet; 64 for a character outside it (binascii's table).
B64Value(c) ==
    IF 65 <= c /\ c <= 90 THEN c - 65
    ELSE IF 97 <= c /\ c <= 122 THEN c - 71
    ELSE IF 48 <= c /\ c <= 57 THEN c + 4
    ELSE IF c = 43 \/ c = 45 THEN 62
    ELSE IF c = 47 \/ c = 95 THEN 63
    ELSE 64

\* binascii.a2b_base64 without strict mode.  Characters outside the alphabet
\* are skipped.  A `=` ends the input when, counted with the `=` seen since
\* the last character of the alphabet, it completes a quad of which at least
\* two characters are read.  Input that ends inside a quad is an error.
\* Four characters of the alphabet give three bytes, a rest of two gives one
\* byte, a rest of three gives two.  The result is [ok, bytes].
a2b_base64(s) ==
    LET IsData(q) == s[q] # 61 /\ B64Value(s[q]) # 64
        Before(p) == {q \in 1..(p - 1) : IsData(q)}
        quad_pos(p) == Cardinality(Before(p)) % 4
        pads(p) == Cardinality({q \in 1..p : s[q] = 61 /\ \A r \in Before(p) : r < q})
        stops == {p \in 1..Len(s) :
                     s[p] = 61 /\ quad_pos(p) >= 2 /\ quad_pos(p) + pads(p) >= 4}
        end == IF stops = {} THEN Len(s) + 1 ELSE Least(stops)
        data == SelectSeq([q \in 1..(end - 1) |-> IF IsData(q) THEN B64Value(s[q]) ELSE 64],
                          LAMBDA v : v # 64)
        n == Len(data)
        nbytes == 3 * (n \div 4) + (IF n % 4 = 0 THEN 0 ELSE (n % 4) - 1)
        byte(j) ==
            LET g == 4 * ((j - 1) \div 3)
                r == (j - 1) % 3
            IN  IF r = 0 THEN data[g + 1] * 4 + (data[g + 2] \div 16)
                ELSE IF r = 1 THEN (data[g + 2] % 16) * 16 + (data[g + 3] \div 4)
                ELSE (data[g + 3] % 4) * 64 + data[g + 4]
    IN  [ok |-> stops # {} \/ n % 4 = 0,
         bytes |-> [j \in 1..nbytes |-> byte(j)]]

\* base64.urlsafe_b64decode of a str: a character that is not ASCII makes the
\* conversion to bytes raise ValueError.
urlsafe_b64decode(s) ==
    IF \E k \in 1..Len(s) : s[k] > 127
    THEN [ok |-> FALSE, bytes |-> <<>>]
    ELSE a2b_base64(s)

IsCont(b) == 128 <= b /\ b <= 191

\* The number of bytes of the UTF-8 sequence that starts with byte b0, 0 for
\* a byte that cannot start one.
Utf8Need(b0) ==
    IF b0 < 128 THEN 1
    ELSE IF 194 <= b0 /\ b0 <= 223 THEN 2
    ELSE IF 224 <= b0 /\ b0 <= 239 THEN 3
    ELSE IF 240 <= b0 /\ b0 <= 244 THEN 4
    ELSE 0

\* Whether b1 may follow the start byte b0 (no overlong form, no surrogate,
\* nothing above U+10FFFF).
Utf8Second(b0, b1) ==
    /\ IsCont(b1)
    /\ b0 = 224 => b1 >= 160
    /\ b0 = 237 => b1 <= 159
    /\ b0 = 240 => b1 >= 144
    /\ b0 = 244 => b1 <= 143

\* The number of bytes from position p on that form a valid prefix of the
\* sequence started by b[p], at most `need`.
RECURSIVE Utf8Good(_, _, _, _)
Utf8Good(b, p, k, need) ==
    IF k >= need \/ p + k > Len(b) THEN k
    ELSE IF (IF k = 1 THEN Utf8Second(b[p], b[p + 1]) ELSE IsCont(b[p + k]))
    THEN Utf8Good(b, p, k + 1, need)
    ELSE k

Utf8CodePoint(b, p, need) ==
    IF need = 1 THEN b[p]
    ELSE IF need = 2 THEN (b[p] - 192) * 64 + (b[p + 1] - 128)
    ELSE IF need = 3 THEN (b[p] - 224) * 4096 + (b[p + 1] - 128) * 64 + (b[p + 2] - 128)
    ELSE (b[p] - 240) * 262144 + (b[p + 1] - 128) * 4096
         + (b[p + 2] - 128) * 64 + (b[p + 3] - 128)

\* bytes.decode("utf-8", errors="ignore"): a byte that cannot start a
\* sequence is dropped, and so is the valid prefix of a sequence that is cut
\* short by a wrong byte or by the end of the data.  Decoding goes on at the byte
\* after what was dropped, so a character comes from every byte below 128 and
\* from every start byte that its continuation bytes follow, and from nothing
\* else.
utf8_decode_ignore(b) ==
    LET Emits(p) == /\ Utf8Need(b[p]) # 0
                    /\ Utf8Good(b, p, 1, Utf8Need(b[p])) = Utf8Need(b[p])
        starts == SelectSeq([p \in 1..Len(b) |-> p], LAMBDA p : Emits(p))
    IN  [k \in 1..Len(starts) |-> Utf8CodePoint(b, starts[k], Utf8Need(b[starts[k]]))]

\* The try block of decode_body: the body with "===" appended is decoded as
\* URL-safe base64 and the bytes as UTF-8; on an exception the body is taken
\* as it is.
decode_text(body) ==
    IF urlsafe_b64decode(body \o <<61, 61, 61>>).ok
    THEN utf8_decode_ignore(urlsafe_b64decode(body \o <<61, 61, 61>>).bytes)
    ELSE body

\* decode_body(context): the dict it returns.
decode_body(ctx) ==
    [k \in {"body_text", "subject"} |->
        IF k = "body_text" THEN decode_text(ctx["raw"].body)
        ELSE ctx["raw"].subject]

\* ---------------------------------------------------------- extract_fields

\* Optional[str]: None, or a str.
None == [some |-> FALSE, val |-> <<>>]
Some(t) == [some |-> TRUE, val |-> t]

\* The end of a match of \d{4}-\d{2}-\d{2} at position p, 0 when there is none.
IsoDateEnd(t, p) ==
    IF /\ p + 9 <= Len(t)
       /\ \A k \in {0, 1, 2, 3, 5, 6, 8, 9} : IsDigit(t[p + k])
       /\ t[p + 4] = 45
       /\ t[p + 7] = 45
    THEN p + 9 ELSE 0

\* \d{1,2}/ at position p: the position after the slash, 0 when no match.
DayMonthEnd(t, p) ==
    IF p + 2 <= Len(t) /\ IsDigit(t[p]) /\ IsDigit(t[p + 1]) /\ t[p + 2] = 47
    THEN p + 3
    ELSE IF p + 1 <= Len(t) /\ IsDigit(t[p]) /\ t[p + 1] = 47
    THEN p + 2
    ELSE 0

Min(a, b) == IF a <= b THEN a ELSE b

\* The end of a match of \d{1,2}/\d{1,2}/\d{2,4} at position p, 0 when none.
SlashDateEnd(t, p) ==
    IF DayMonthEnd(t, p) = 0 THEN 0
    ELSE IF DayMonthEnd(t, DayMonthEnd(t, p)) = 0 THEN 0
    ELSE IF SpanWhile(t, DayMonthEnd(t, DayMonthEnd(t, p)), "d") < 2 THEN 0
    ELSE DayMonthEnd(t, DayMonthEnd(t, p))
         + Min(4, SpanWhile(t, DayMonthEnd(t, DayMonthEnd(t, p)), "d")) - 1

DateEnd(t, p) == IF IsoDateEnd(t, p) # 0 THEN IsoDateEnd(t, p) ELSE SlashDateEnd(t, p)

\* re.search of the date pattern: group 1 of the leftmost match, "" when the
\* pattern is not found.
DateSearch(t) ==
    LET at == {p \in 1..Len(t) : DateEnd(t, p) # 0}
    IN  IF at = {} THEN <<>> ELSE Slice(t, Least(at), DateEnd(t, Least(at)))

\* The class of the three currency symbols: dollar, euro, pound.
IsCurrencySymbol(c) == c \in {36, 8364, 163}

\* symbol_map.get(currency_symbol, "USD")
symbol_map(sym) ==
    IF sym = <<8364>> THEN Str(<<"E", "U", "R">>)
    ELSE IF sym = <<163>> THEN Str(<<"G", "B", "P">>)
    ELSE Str(<<"U", "S", "D">>)

CurrencyCodes == {Str(<<"U", "S", "D">>), Str(<<"E", "U", "R">>), Str(<<"G", "B", "P">>)}

\* (?:,\d{3})* from position p: the position after the last group.
RECURSIVE ThousandsEnd(_, _)
ThousandsEnd(t, p) ==
    IF /\ p + 3 <= Len(t)
       /\ t[p] = 44
       /\ \A k \in 1..3 : IsDigit(t[p + k])
    THEN ThousandsEnd(t, p + 4)
    ELSE p

\* (?:\.\d{2})? from position p: the position after it.
FractionEnd(t, p) ==
    IF p + 2 <= Len(t) /\ t[p] = 46 /\ IsDigit(t[p + 1]) /\ IsDigit(t[p + 2])
    THEN p + 3 ELSE p

\* The amount pattern matches at p when a digit stands there, or a currency
\* symbol followed by a digit.
AmountAt(t, p) ==
    \/ IsDigit(t[p])
    \/ IsCurrencySymbol(t[p]) /\ p + 1 <= Len(t) /\ IsDigit(t[p + 1])

\* The start of the leftmost match of the amount pattern, 0 when none.
AmountStart(t) ==
    LET at == {p \in 1..Len(t) : AmountAt(t, p)}
    IN  IF at = {} THEN 0 ELSE Least(at)

\* float(amt_str.replace(",", "")), in hundredths.
amount_value(amt_str) ==
    IF Len(amt_str) >= 3 /\ amt_str[Len(amt_str) - 2] = 46
    THEN 100 * DigitsValue(SelectSeq(SubSeq(amt_str, 1, Len(amt_str) - 3),
                                     LAMBDA c : c # 44))
         + DigitsValue(SubSeq(amt_str, Len(amt_str) - 1, Len(amt_str)))
    ELSE 100 * DigitsValue(SelectSeq(amt_str, LAMBDA c : c # 44))

\* re.search of the amount pattern and amt_match.groups(), or the defaults
\* ("", "0", None): [currency_symbol, amt_str, currency_code].
AmountGroups(t) ==
    IF AmountStart(t) = 0
    THEN [currency_symbol |-> <<>>, amt_str |-> <<48>>, currency_code |-> None]
    ELSE LET p == AmountStart(t)
             d == IF IsDigit(t[p]) THEN p ELSE p + 1
             e == FractionEnd(t, ThousandsEnd(t, d + Min(3, SpanWhile(t, d, "d"))))
             c == e + SpanWhile(t, e, "s")
         IN  [currency_symbol |-> Slice(t, p, d - 1),
              amt_str |-> Slice(t, d, e - 1),
              currency_code |->
                  IF \E w \in CurrencyCodes : HasAt(t, c, w)
                  THEN Some(Slice(t, c, c + 2)) ELSE None]

\* re.search of `word[:\-]\s*(.+)`: [found, a, b], group 1 being t[a..b].
\* \s* gives back what it took, one character at a time, until (.+) finds a
\* character that is no newline; (.+) runs to the end of the line.
\* GroupStart is where group 1 starts when the marker ends before position q,
\* 0 when the pattern does not match there.
GroupStart(t, q) ==
    LET at == {r \in q..(q + SpanWhile(t, q, "s")) : r <= Len(t) /\ IsDot(t[r])}
    IN  IF at = {} THEN 0 ELSE Greatest(at)

MarkerAt(t, word, p) ==
    /\ p + Len(word) <= Len(t)
    /\ HasAt(t, p, word)
    /\ t[p + Len(word)] \in {58, 45}
    /\ GroupStart(t, p + Len(word) + 1) # 0

MarkerSearch(t, word) ==
    LET at == {p \in 1..Len(t) : MarkerAt(t, word, p)}
    IN  IF at = {} THEN [found |-> FALSE, a |-> 0, b |-> 0]
        ELSE LET a == GroupStart(t, Least(at) + Len(word) + 1)
             IN  [found |-> TRUE, a |-> a, b |-> ClassEnd(t, a, ".") - 1]

MarkerGroup(t, word) ==
    Slice(t, MarkerSearch(t, word).a, MarkerSearch(t, word).b)

VendorWord == Str(<<"V", "e", "n", "d", "o", "r">>)
CategoryWord == Str(<<"C", "a", "t", "e", "g", "o", "r", "y">>)
DescriptionWord == Str(<<"D", "e", "s", "c", "r", "i", "p", "t", "i", "o", "n">>)
Unknown == Str(<<"U", "n", "k", "n", "o", "w", "n">>)

\* vendor_match.group(1).strip().splitlines()[0] raises IndexError: the list
\* of lines is empty.
vendor_raises(text) ==
    /\ MarkerSearch(text, VendorWord).found
    /\ splitlines_empty(strip(MarkerGroup(text, VendorWord)))

\* Lines 43-47: the vendor.
vendor_of(text, subject) ==
    IF MarkerSearch(text, VendorWord).found
    THEN splitlines_first(strip(MarkerGroup(text, VendorWord)))
    ELSE IF subject # <<>> THEN subject ELSE Unknown

\* group(1).strip() of an optional pattern, or None.
optional_field(text, word) ==
    IF MarkerSearch(text, word).found
    THEN Some(strip(MarkerGroup(text, word))) ELSE None

\* extract_fields(context): ["raise" |-> the exception raised, or ""] and the
\* dict it returns.
extract_fields(ctx) ==
    IF "body_text" \notin DOMAIN ctx THEN [raise |-> "KeyError", dict |-> <<>>]
    ELSE IF vendor_raises(ctx["body_text"]) THEN [raise |-> "IndexError", dict |-> <<>>]
    ELSE IF /\ ~MarkerSearch(ctx["body_text"], VendorWord).found
            /\ "subject" \notin DOMAIN ctx
    THEN [raise |-> "KeyError", dict |-> <<>>]
    ELSE LET text == ctx["body_text"]
             g == AmountGroups(text)
         IN  [raise |-> "",
              dict |->
                [k \in {"date", "vendor", "amount", "currency", "category", "description"} |->
                    IF k = "date" THEN DateSearch(text)
                    ELSE IF k = "vendor"
                    THEN vendor_of(text, IF "subject" \in DOMAIN ctx
                                         THEN ctx["subject"] ELSE <<>>)
                    ELSE IF k = "amount" THEN amount_value(g.amt_str)
                    ELSE IF k = "currency"
                    THEN IF g.currency_code.some THEN g.currency_code
                         ELSE Some(symbol_map(g.currency_symbol))
                    ELSE IF k = "category" THEN optional_field(text, CategoryWord)
                    ELSE optional_field(text, DescriptionWord)]]

\* -------------------------------------------------------- normalize_formats

\* The formats tried, in order: "%Y-%m-%d", "%m/%d/%Y", "%m/%d/%y".  A
\* directive is written by its letter, a literal by itself.
DateFormats ==
    << <<"Y", "-", "m", "-", "d">>,
       <<"m", "/", "d", "/", "Y">>,
       <<"m", "/", "d", "/", "y">> >>

\* The lengths at which a directive of _strptime's pattern matches at
\* position p, in the order the alternatives of its group are tried:
\*   %Y \d\d\d\d    %y \d\d    %m 1[0-2]|0[1-9]|[1-9]
\*   %d 3[0-1]|[1-2]\d|0[1-9]|[1-9]| [1-9]
DirectiveLengths(t, p, dir) ==
    LET has1 == p <= Len(t)
        has2 == p + 1 <= Len(t)
    IN  IF dir = "Y"
        THEN IF SpanWhile(t, p, "d") >= 4 THEN <<4>> ELSE <<>>
        ELSE IF dir = "y"
        THEN IF SpanWhile(t, p, "d") >= 2 THEN <<2>> ELSE <<>>
        ELSE IF dir = "m"
        THEN (IF has2 /\ \/ t[p] = 49 /\ AsciiDigitIn(t[p + 1], 0, 2)
                         \/ t[p] = 48 /\ AsciiDigitIn(t[p + 1], 1, 9)
              THEN <<2>> ELSE <<>>)
             \o (IF has1 /\ AsciiDigitIn(t[p], 1, 9) THEN <<1>> ELSE <<>>)
        ELSE IF dir = "d"
        THEN (IF has2 /\ \/ t[p] = 51 /\ AsciiDigitIn(t[p + 1], 0, 1)
                         \/ AsciiDigitIn(t[p], 1, 2) /\ IsDigit(t[p + 1])
                         \/ t[p] = 48 /\ AsciiDigitIn(t[p + 1], 1, 9)
              THEN <<2>> ELSE <<>>)
             \o (IF has1 /\ AsciiDigitIn(t[p], 1, 9) THEN <<1>> ELSE <<>>)
             \o (IF has2 /\ t[p] = 32 /\ AsciiDigitIn(t[p + 1], 1, 9)
                 THEN <<2>> ELSE <<>>)
        ELSE IF has1 /\ t[p] = Ord(dir) THEN <<1>> ELSE <<>>

\* re.match of the pattern of a format, from directive k and position p: the
\* first match in the order of backtracking, as [ok, end, val] where val gives
\* the int() of each directive's text.
RECURSIVE FormatMatch(_, _, _, _, _)
RECURSIVE FormatTry(_, _, _, _, _, _)
FormatTry(t, p, fmt, k, val, lens) ==
    IF lens = <<>> THEN [ok |-> FALSE, end |-> 0, val |-> val]
    ELSE LET n == Head(lens)
             v == IF fmt[k] \in {"Y", "y", "m", "d"}
                  THEN [val EXCEPT ![fmt[k]] =
                           DigitsValue(SelectSeq(Slice(t, p, p + n - 1),
                                                 LAMBDA c : c # 32))]
                  ELSE val
             r == FormatMatch(t, p + n, fmt, k + 1, v)
         IN  IF r.ok THEN r ELSE FormatTry(t, p, fmt, k, val, Tail(lens))
FormatMatch(t, p, fmt, k, val) ==
    IF k > Len(fmt) THEN [ok |-> TRUE, end |-> p - 1, val |-> val]
    ELSE FormatTry(t, p, fmt, k, val, DirectiveLengths(t, p, fmt[k]))

IsLeap(y) == (y % 4 = 0 /\ y % 100 # 0) \/ y % 400 = 0

DaysInMonth(y, m) ==
    IF m = 2 THEN (IF IsLeap(y) THEN 29 ELSE 28)
    ELSE IF m \in {4, 6, 9, 11} THEN 30 ELSE 31

\* datetime.strptime(raw_date, fmt): [ok, year, month, day]; ok is false when
\* it raises ValueError: no match, unconverted data, or no such date.
strptime(t, fmt) ==
    LET r == FormatMatch(t, 1, fmt, 1, [d \in {"Y", "y", "m", "d"} |-> 0])
        year == IF "Y" \in {fmt[k] : k \in 1..Len(fmt)} THEN r.val["Y"]
                ELSE IF r.val["y"] <= 68 THEN 2000 + r.val["y"] ELSE 1900 + r.val["y"]
    IN  [ok |-> /\ r.ok
                /\ r.end = Len(t)
                /\ year >= 1
                /\ r.val["d"] <= DaysInMonth(year, r.val["m"]),
         year |-> year, month |-> r.val["m"], day |-> r.val["d"]]

\* The decimal digits of n, zero-padded to the given width.
RECURSIVE Digits(_, _)
Digits(n, width) ==
    IF width <= 1 /\ n < 10 THEN <<48 + n>>
    ELSE Append(Digits(n \div 10, width - 1), 48 + (n % 10))

\* date.isoformat()
isoformat(y, m, d) == Digits(y, 4) \o <<45>> \o Digits(m, 2) \o <<45>> \o Digits(d, 2)

\* Mutant of normalize_date: a date that parses under no format becomes "".
RECURSIVE normalize_date_or_empty(_, _)
normalize_date_or_empty(raw_date, f) ==
    IF f > Len(DateFormats) THEN <<>>
    ELSE IF strptime(raw_date, DateFormats[f]).ok
    THEN isoformat(strptime(raw_date, DateFormats[f]).year,
                   strptime(raw_date, DateFormats[f]).month,
                   strptime(raw_date, DateFormats[f]).day)
    ELSE normalize_date_or_empty(raw_date, f + 1)

\* Lines 68-76: the first format that parses gives the ISO date; when none
\* does, the date is passed through.
RECURSIVE normalize_date(_, _)
normalize_date(raw_date, f) ==
    IF f > Len(DateFormats) THEN raw_date
    ELSE IF strptime(raw_date, DateFormats[f]).ok
    THEN isoformat(strptime(raw_date, DateFormats[f]).year,
                   strptime(raw_date, DateFormats[f]).month,
                   strptime(raw_date, DateFormats[f]).day)
    ELSE normalize_date(raw_date, f + 1)

\* normalize_formats(context): the exception raised, or "", and the dict
\* returned.
normalize_formats(ctx) ==
    IF "date" \notin DOMAIN ctx THEN [raise |-> "KeyError", dict |-> <<>>]
    ELSE [raise |-> "",
          dict |-> [k \in {"date", "currency"} |->
                      IF k = "date" THEN normalize_date(ctx["date"], 1)
                      ELSE IF /\ "currency" \in DOMAIN ctx
                              /\ ctx["currency"].some
                              /\ ctx["currency"].val # <<>>
                      THEN Some(upper(ctx["currency"].val))
                      ELSE None]]

\* ------------------------------------------------------ DefaultExpenseParser

ExpenseFields == {"date", "vendor", "amount", "currency", "category", "description"}

\* An empty dict.
EmptyDict == [k \in {} |-> 0]

\* dict.update: the later writer of a key wins.
Update(ctx, result) ==
    [k \in DOMAIN ctx \cup DOMAIN result |->
        IF k \in DOMAIN result THEN result[k] ELSE ctx[k]]

\* build_parsed_expense(context): ParsedExpense(**context).  The model class
\* declares types only (date: str, vendor: str, amount: float, currency: str,
\* two Optional[str]); it has no validator.  Construction fails when a field
\* is missing or is None where a str is declared; other keys are ignored.
build_parsed_expense(ctx) ==
    IF \/ {"date", "vendor", "amount", "currency"} \ DOMAIN ctx # {}
       \/ ~ctx["currency"].some
    THEN [raise |-> "ValidationError", dict |-> EmptyDict]
    ELSE [raise |-> "",
          dict |-> [k \in ExpenseFields |->
                      IF k \in DOMAIN ctx THEN ctx[k] ELSE None]]

\* The default pipeline of DefaultExpenseParser.__init__.
DefaultSteps == <<"decode_body", "extract_fields", "normalize_formats">>
StepNames == {"decode_body", "extract_fields", "normalize_formats"}

\* self.steps = steps or [decode_body, extract_fields, normalize_formats]:
\* the default is taken for None and for every falsy value, the empty list
\* included.
self_steps(arg) == IF arg.given /\ arg.list # <<>> THEN arg.list ELSE DefaultSteps

\* step(context) for the step of that name.
ApplyStep(name, ctx) ==
    IF name = "decode_body" THEN [raise |-> "", dict |-> decode_body(ctx)]
    ELSE IF name = "extract_fields" THEN extract_fields(ctx)
    ELSE normalize_formats(ctx)

\* -------------------------------------------- one call of the parser, alone

\* DefaultExpenseParser() built without a list of steps.
NoSteps == [given |-> FALSE, list |-> <<>>]

PIdle ==
    /\ steps_arg = NoSteps
    /\ call = "none"
    /\ context = EmptyDict
    /\ step_ix = 0
    /\ ppc = "idle"
    /\ ran = <<>>
    /\ output = EmptyDict
    /\ raised = ""

\* ------------------------------------------------------ retry classification

\* Python truthiness of an Optional[int]: `if status and ...`
Truthy(status) == status # NoStatus /\ status # 0

\* sheets_connector.py sync_append, the except branch: what follows an
\* APIError with this status at this attempt.
SheetsOnError(status, att, maxr) ==
    IF Truthy(status) /\ status >= 500
    THEN IF att = maxr THEN "raise" ELSE "retry"
    ELSE "raise"

\* slack_connector.py send_notification, the except branch.
SlackOnError(status, att, maxr) ==
    IF Truthy(status) /\ (status = 429 \/ (500 <= status /\ status < 600)) /\ att < maxr
    THEN "retry"
    ELSE "raise"

\* `while attempt <= self._max_retries` of sync_append
SheetsLoopEnters(att, maxr) == att <= maxr

RECURSIVE Pow2(_)
Pow2(n) == IF n <= 0 THEN 1 ELSE 2 * Pow2(n - 1)

\* Mutant of retry_delay: the delay grows by backoff_factor per retry.
retry_delay_linear(att) == BackoffTenths * (att + 1)

\* delay = backoff_factor * (2 ** attempt), in tenths of a second
retry_delay(att) == BackoffTenths * Pow2(att)

\* ------------------------------------------------------------ the workflow

RunningPcs == {"open", "append", "appendSleep", "post", "slackSleep"}
FailedPcs == {"failed_parse", "failed_record", "failed_notify", "failed_ack"}
TerminalPcs == FailedPcs \cup {"acked"}

Holding(i) == pc[i] \in RunningPcs
LoopFree == loop_blocked = 0

\* What the environment may answer for item i.
Outcomes(i) == IF i \in flaky THEN Statuses ELSE {OK}
Successes(i) == IF i \in flaky THEN BOOLEAN ELSE {TRUE}

\* No run of the workflow came before this one.
NoRun ==
    [done |-> FALSE, pc |-> [i \in Items |-> "none"], rows |-> [i \in Items |-> 0],
     posts |-> [i \in Items |-> 0], unread |-> {}]

\* The state before run(): a mailbox of up to `most` unread messages; the
\* environment may fail for any item of a batch of up to `small` messages and
\* for at most MaxFlaky items of a larger one.
WfStart(small, most) ==
    /\ run = "start"
    /\ listing = "pending"
    /\ \E m \in 0..most : unread = 1..m
    /\ flaky \in SUBSET unread
    /\ Cardinality(unread) <= small \/ Cardinality(flaky) <= MaxFlaky
    /\ raw_emails = {}
    /\ pc = [i \in Items |-> "none"]
    /\ attempt = [i \in Items |-> 0]
    /\ sem = SemCap
    /\ worksheet_handle = FALSE
    /\ loop_blocked = 0
    /\ parsed = {}
    /\ rows = [i \in Items |-> 0]
    /\ posts = [i \in Items |-> 0]
    /\ reports = [i \in Items |-> 0]
    /\ prev = NoRun

WfInit == WfStart(SmallBatch, MaxItems)

RIdle ==
    /\ client = "none"
    /\ max_retries = 0
    /\ rpc = "returned"
    /\ rattempt = 0
    /\ seen = <<>>
    /\ delays = <<>>

Init == WfInit /\ RIdle /\ PIdle

\* Mutant of ListFailure: the listing error is swallowed and run() returns as
\* if the batch were empty.
ListFailureSwallowed ==
    /\ listing' = "failed"
    /\ run' = "returned"
    /\ UNCHANGED <<raw_emails, pc>>

\* fetch_unread_receipts: the listing call raised; run() raises to its caller.
ListFailure ==
    /\ listing' = "failed"
    /\ run' = "raised"
    /\ UNCHANGED <<raw_emails, pc>>

\* Mutant of Dispatch: run() has no `if raw_emails:` test and awaits gather
\* also for an empty list.
DispatchGathersEmpty(emails) ==
    /\ listing' = "ok"
    /\ raw_emails' = emails
    /\ run' = "gather"
    /\ pc' = [i \in Items |-> IF i \in emails THEN "queued" ELSE "none"]

\* Mutant of Dispatch: messages that already have a row in the sheet are left
\* out of the batch.
DispatchDeduplicates(emails) ==
    /\ listing' = "ok"
    /\ raw_emails' = {i \in emails : rows[i] = 0}
    /\ IF raw_emails' = {}
       THEN run' = "returned" /\ UNCHANGED pc
       ELSE /\ run' = "gather"
            /\ pc' = [i \in Items |-> IF i \in raw_emails' THEN "queued" ELSE "none"]

\* fetch_unread_receipts returned `emails`; run() dispatches one sem_task per
\* RawEmail with gather, or returns when the list is empty.
Dispatch(emails) ==
    /\ listing' = "ok"
    /\ raw_emails' = emails
    /\ IF emails = {}
       THEN run' = "returned" /\ UNCHANGED pc
       ELSE /\ run' = "gather"
            /\ pc' = [i \in Items |-> IF i \in emails THEN "queued" ELSE "none"]

\* run(), up to the await of gather.  A message whose get call raises
\* HttpError is skipped by fetch_unread_receipts.
Fetch ==
    /\ run = "start"
    /\ \/ ListFailure
       \/ \E skipped \in SUBSET (unread \cap flaky) : Dispatch(unread \ skipped)
    /\ UNCHANGED <<unread, flaky, attempt, sem, worksheet_handle, loop_blocked,
                   parsed, rows, posts, reports, prev, rvars, pvars>>

\* Mutant of TaskFails: process_email has no except clause, so the error leaves
\* the task, gather re-raises it and run() raises.
TaskFailsPropagates(i, stage, held) ==
    /\ pc' = [pc EXCEPT ![i] = stage]
    /\ reports' = [reports EXCEPT ![i] = @ + 1]
    /\ sem' = held + 1
    /\ run' = "raised"

\* Mutant of TaskFails: the failed item is handed to the queue again.
TaskFailsRequeues(i, stage, held) ==
    /\ pc' = [pc EXCEPT ![i] = "queued"]
    /\ reports' = [reports EXCEPT ![i] = @ + 1]
    /\ sem' = held + 1
    /\ UNCHANGED run

\* Mutant of TaskFails: the except clause prints nothing.
TaskFailsSilent(i, stage, held) ==
    /\ pc' = [pc EXCEPT ![i] = stage]
    /\ sem' = held + 1
    /\ UNCHANGED <<run, reports>>

\* Mutant of TaskFails: the slot of a task that failed is not given back.
TaskFailsKeepsSlot(i, stage, held) ==
    /\ pc' = [pc EXCEPT ![i] = stage]
    /\ reports' = [reports EXCEPT ![i] = @ + 1]
    /\ sem' = held
    /\ UNCHANGED run

\* process_email's except clause, then sem_task's release of the semaphore:
\* the error is printed for this item and the task ends.  `held` is the
\* semaphore's value while the task holds its slot.
TaskFails(i, stage, held) ==
    /\ pc' = [pc EXCEPT ![i] = stage]
    /\ reports' = [reports EXCEPT ![i] = @ + 1]
    /\ sem' = held + 1
    /\ UNCHANGED run

\* Mutant of CanAcquire: the tasks are not gated by the semaphore.
CanAcquireAlways == TRUE

\* asyncio.Semaphore.acquire returns at once when the value is positive.
CanAcquire == sem > 0

\* Mutant of record_expense: the record step is left out and process_email
\* goes straight to send_notification.
record_expense_skipped(i) ==
    /\ pc' = [pc EXCEPT ![i] = "post"]
    /\ attempt' = [attempt EXCEPT ![i] = 0]

\* record_expense up to its first await: open_sheet when no handle is cached,
\* append_row otherwise.
record_expense(i) ==
    /\ pc' = [pc EXCEPT ![i] = IF worksheet_handle THEN "append" ELSE "open"]
    /\ attempt' = [attempt EXCEPT ![i] = 0]

\* Mutant of process_email: the failure of parse is printed but the task goes
\* on to record_expense.
process_email_goes_on(i, ok) ==
    /\ parsed' = IF ok THEN parsed \cup {i} ELSE parsed
    /\ reports' = [reports EXCEPT ![i] = IF ok THEN @ ELSE @ + 1]
    /\ record_expense(i)
    /\ sem' = sem - 1
    /\ UNCHANGED run

\* process_email from its entry, the slot just taken, to its first await:
\* parse returned a ParsedExpense (ok) and record_expense starts, or parse
\* raised and the except clause ends the task.
process_email(i, ok) ==
    IF ok
    THEN /\ parsed' = parsed \cup {i}
         /\ record_expense(i)
         /\ sem' = sem - 1
         /\ UNCHANGED <<run, reports>>
    ELSE /\ TaskFails(i, "failed_parse", sem - 1)
         /\ UNCHANGED <<parsed, attempt>>

\* What parse can do for item i.  parse is a function of the RawEmail alone:
\* in a second run it does for a message what it did in the first.
ParseResults(i) ==
    IF prev.done /\ prev.pc[i] \notin {"none", "queued"}
    THEN {prev.pc[i] # "failed_parse"}
    ELSE Successes(i)

\* sem_task: acquire the semaphore, parse, and start record_expense, up to the
\* first await.  Waiters are woken in the order they queued, which is the
\* order gather created the tasks in.
sem_task(i) ==
    /\ run = "gather"
    /\ LoopFree
    /\ pc[i] = "queued"
    /\ \A j \in raw_emails : j < i => pc[j] # "queued"
    /\ CanAcquire
    /\ \E ok \in ParseResults(i) : process_email(i, ok)
    /\ UNCHANGED <<listing, unread, flaky, raw_emails, worksheet_handle,
                   loop_blocked, rows, posts, prev, rvars, pvars>>

\* The await of open_sheet completes: sync_open stored the handle and
\* record_expense goes on to append_row; or its exception reaches process_email.
open_sheet(i) ==
    /\ LoopFree
    /\ pc[i] = "open"
    /\ \E ok \in Successes(i) :
          IF ok
          THEN /\ worksheet_handle' = TRUE
               /\ pc' = [pc EXCEPT ![i] = "append"]
               /\ attempt' = [attempt EXCEPT ![i] = 0]
               /\ UNCHANGED <<run, sem, reports>>
          ELSE /\ TaskFails(i, "failed_record", sem)
               /\ UNCHANGED <<worksheet_handle, attempt>>
    /\ UNCHANGED <<listing, unread, flaky, raw_emails, loop_blocked, parsed,
                   rows, posts, prev, rvars, pvars>>

\* One pass of sync_append's while loop, in a worker thread.  A pass that ends
\* the loop ends the await of append_row: record_expense returns and
\* send_notification submits chat_postMessage, or the error reaches
\* process_email.
sync_append(i) ==
    /\ pc[i] = "append"
    /\ \E s \in Outcomes(i) :
          IF SheetsLoopEnters(attempt[i], DefaultMaxRetries) /\ s # OK
             /\ SheetsOnError(s, attempt[i], DefaultMaxRetries) = "retry"
          THEN /\ pc' = [pc EXCEPT ![i] = "appendSleep"]
               /\ UNCHANGED <<run, sem, reports, rows, attempt>>
          ELSE /\ LoopFree
               /\ IF SheetsLoopEnters(attempt[i], DefaultMaxRetries) /\ s # OK
                  THEN /\ TaskFails(i, "failed_record", sem)
                       /\ UNCHANGED <<rows, attempt>>
                  ELSE /\ rows' = [rows EXCEPT ![i] =
                               IF SheetsLoopEnters(attempt[i], DefaultMaxRetries)
                               THEN @ + 1 ELSE @]
                       /\ pc' = [pc EXCEPT ![i] = "post"]
                       /\ attempt' = [attempt EXCEPT ![i] = 0]
                       /\ UNCHANGED <<run, sem, reports>>
    /\ UNCHANGED <<listing, unread, flaky, raw_emails, worksheet_handle,
                   loop_blocked, parsed, posts, prev, rvars, pvars>>

\* _retry_sleep returns in the worker thread; attempt += 1; continue.
retry_sleep(i) ==
    /\ pc[i] = "appendSleep"
    /\ pc' = [pc EXCEPT ![i] = "append"]
    /\ attempt' = [attempt EXCEPT ![i] = @ + 1]
    /\ UNCHANGED <<run, listing, unread, flaky, raw_emails, sem,
                   worksheet_handle, loop_blocked, parsed, rows, posts, reports, prev, rvars, pvars>>

\* mark_as_read, called by process_email after send_notification returned; it
\* makes its request on the loop's thread and the task ends in the same step.
mark_as_read(i) ==
    \E ok \in Successes(i) :
        IF ok
        THEN /\ unread' = unread \ {i}
             /\ pc' = [pc EXCEPT ![i] = "acked"]
             /\ sem' = sem + 1
             /\ UNCHANGED <<run, reports>>
        ELSE /\ TaskFails(i, "failed_ack", sem)
             /\ UNCHANGED unread

\* The await of chat_postMessage completes in send_notification.  On success
\* process_email goes on to mark_as_read.  In the except clause time.sleep(delay)
\* is called by the coroutine itself, on the loop's thread; otherwise
\* RuntimeError is raised into process_email.
send_notification(i) ==
    /\ LoopFree
    /\ pc[i] = "post"
    /\ \E s \in Outcomes(i) :
          IF s = OK
          THEN /\ posts' = [posts EXCEPT ![i] = @ + 1]
               /\ mark_as_read(i)
               /\ UNCHANGED loop_blocked
          ELSE /\ IF SlackOnError(s, attempt[i], DefaultMaxRetries) = "retry"
                  THEN /\ loop_blocked' = i
                       /\ pc' = [pc EXCEPT ![i] = "slackSleep"]
                       /\ UNCHANGED <<run, sem, reports>>
                  ELSE /\ TaskFails(i, "failed_notify", sem)
                       /\ UNCHANGED loop_blocked
               /\ UNCHANGED <<posts, unread>>
    /\ UNCHANGED <<listing, flaky, raw_emails, attempt, worksheet_handle,
                   parsed, rows, prev, rvars, pvars>>

\* time.sleep returned: attempt += 1; continue, which submits chat_postMessage.
time_sleep(i) ==
    /\ pc[i] = "slackSleep"
    /\ loop_blocked = i
    /\ loop_blocked' = 0
    /\ attempt' = [attempt EXCEPT ![i] = @ + 1]
    /\ pc' = [pc EXCEPT ![i] = "post"]
    /\ UNCHANGED <<run, listing, unread, flaky, raw_emails, sem, worksheet_handle,
                   parsed, rows, posts, reports, prev, rvars, pvars>>

\* Mutant of GatherDone: the wait ends with the first task that finishes.
GatherDoneFirst == \E i \in raw_emails : pc[i] \in TerminalPcs

\* gather has every task's result.
GatherDone == \A i \in raw_emails : pc[i] \in TerminalPcs

\* run() returns after the await of gather.
run_return ==
    /\ run = "gather"
    /\ LoopFree
    /\ GatherDone
    /\ run' = "returned"
    /\ UNCHANGED <<listing, unread, flaky, raw_emails, pc, attempt, sem,
                   worksheet_handle, loop_blocked, parsed, rows, posts, reports, prev, rvars, pvars>>

\* Every step the task of item i can take.
TaskStep(i) ==
    \/ sem_task(i)
    \/ open_sheet(i)
    \/ sync_append(i)
    \/ retry_sleep(i)
    \/ send_notification(i)
    \/ time_sleep(i)

Next ==
    \/ Fetch
    \/ \E i \in Items : TaskStep(i)
    \/ run_return

Spec == Init /\ [][Next]_vars

\* Progress of the loop and of the worker threads: asyncio runs a coroutine
\* that is ready, the thread pool (at least SemCap workers) runs a submitted
\* function, and every attempt of a remote call returns or raises.
\* The batches are those that fill the semaphore and make one task wait.
FairInit == WfStart(LiveBatch, SemCap + 1) /\ RIdle /\ PIdle
FairSpec == FairInit /\ [][Next]_vars /\ WF_vars(Next)

\* ------------------------------------------------------ two runs in a row

\* run_full_workflow is called again after the first run ended: a new
\* ExpenseWorkflow with new connectors runs over the same mailbox, sheet and
\* channel.  The environment may fail for other items than in the first run.
run_again ==
    /\ run \in {"returned", "raised"}
    /\ ~prev.done
    /\ prev' = [done |-> TRUE, pc |-> pc, rows |-> rows, posts |-> posts,
                unread |-> unread]
    /\ run' = "start"
    /\ listing' = "pending"
    /\ raw_emails' = {}
    /\ pc' = [i \in Items |-> "none"]
    /\ attempt' = [i \in Items |-> 0]
    /\ sem' = SemCap
    /\ worksheet_handle' = FALSE
    /\ parsed' = {}
    /\ flaky' \in SUBSET unread
    /\ UNCHANGED <<unread, loop_blocked, rows, posts, reports, rvars, pvars>>

TwoInit == WfStart(TwoRunBatch, TwoRunBatch) /\ RIdle /\ PIdle

TwoNext == Next \/ run_again

SpecTwoRuns == TwoInit /\ [][TwoNext]_vars

\* ------------------------------------------------- one retried call, alone

WfIdle ==
    /\ run = "returned"
    /\ listing = "ok"
    /\ unread = {}
    /\ flaky = {}
    /\ raw_emails = {}
    /\ pc = [i \in Items |-> "none"]
    /\ attempt = [i \in Items |-> 0]
    /\ sem = SemCap
    /\ worksheet_handle = FALSE
    /\ loop_blocked = 0
    /\ parsed = {}
    /\ rows = [i \in Items |-> 0]
    /\ posts = [i \in Items |-> 0]
    /\ reports = [i \in Items |-> 0]
    /\ prev = NoRun

\* One call of append_row ("sheets") or of send_notification ("slack") on a
\* connector built with max_retries; attempt = 0.
RInit ==
    /\ WfIdle
    /\ PIdle
    /\ client \in {"sheets", "slack"}
    /\ max_retries \in 0..MaxRetriesBound
    /\ rpc = "call"
    /\ rattempt = 0
    /\ seen = <<>>
    /\ delays = <<>>

\* What the except branch of the client decides.
OnError(c, status, att, maxr) ==
    IF c = "sheets" THEN SheetsOnError(status, att, maxr)
    ELSE SlackOnError(status, att, maxr)

\* One pass of the loop: the remote call answers with status s.  sync_append
\* leaves its loop without a call when `attempt <= max_retries` is false.
RAttempt ==
    /\ rpc = "call"
    /\ IF client = "sheets" /\ ~SheetsLoopEnters(rattempt, max_retries)
       THEN rpc' = "returned" /\ UNCHANGED seen
       ELSE \E s \in Statuses :
               /\ seen' = Append(seen, s)
               /\ rpc' = IF s = OK THEN "returned"
                         ELSE IF OnError(client, s, rattempt, max_retries) = "retry"
                         THEN "sleep" ELSE "raised"
    /\ UNCHANGED <<client, max_retries, rattempt, delays, wfvars, pvars>>

\* The delay before the next attempt, then attempt += 1; continue.
RSleep ==
    /\ rpc = "sleep"
    /\ delays' = Append(delays, retry_delay(rattempt))
    /\ rattempt' = rattempt + 1
    /\ rpc' = "call"
    /\ UNCHANGED <<client, max_retries, seen, wfvars, pvars>>

RNext == RAttempt \/ RSleep

SpecRetry == RInit /\ [][RNext]_vars

\* One call on a connector built with any integer max_retries: the constructors
\* take the argument as it is given, negative values included.
RInitAny ==
    /\ WfIdle
    /\ PIdle
    /\ client \in {"sheets", "slack"}
    /\ max_retries \in (0 - MaxNegRetries)..MaxRetriesBound
    /\ rpc = "call"
    /\ rattempt = 0
    /\ seen = <<>>
    /\ delays = <<>>

SpecRetryAny == RInitAny /\ [][RNext]_vars

\* The calls of append_row and of send_notification, alone on a connector
\* built with any max_retries, or made by the tasks of a run, side by side.
CallsInit == FairInit \/ RInit

CallsNext == Next \/ RNext

SpecCalls == CallsInit /\ [][CallsNext]_vars

\* The pieces the bodies of the calls are put together from.
Chunks ==
    { Str(<<"V", "e", "n", "d", "o", "r", ":">>),
      Str(<<" ">>),
      Str(<<"\n">>),
      Str(<<"A", "c", "m", "e">>),
      Str(<<"$", "4", ".", "5", "0">>),
      <<8364, 55>>,
      Str(<<"2", "0", "2", "5", "-", "0", "7", "-", "0", "6">>),
      Str(<<"7", "/", "6", "/", "2", "5">>),
      Str(<<"E", "U", "R">>) }

\* The texts of at most n pieces.
RECURSIVE Texts(_)
Texts(n) ==
    IF n = 0 THEN {<<>>}
    ELSE Texts(n - 1) \cup {t \o c : t \in Texts(n - 1), c \in Chunks}

\* The body of the end-to-end example.
ExampleBody ==
    Str(<<"V", "e", "n", "d", "o", "r", ":", " ",
          "E", "x", "a", "m", "p", "l", "e", " ", "C", "o", "r", "p", "\n",
          "D", "a", "t", "e", ":", " ",
          "2", "0", "2", "5", "-", "0", "7", "-", "0", "6", "\n",
          "A", "m", "o", "u", "n", "t", ":", " ", "$", "4", "2", ".", "9", "9", "\n",
          "C", "a", "t", "e", "g", "o", "r", "y", ":", " ", "M", "e", "a", "l", "s", "\n",
          "D", "e", "s", "c", "r", "i", "p", "t", "i", "o", "n", ":", " ",
          "L", "u", "n", "c", "h", " ", "w", "i", "t", "h", " ",
          "c", "l", "i", "e", "n", "t">>)

Bodies == Texts(MaxChunks) \cup {ExampleBody}

\* The bodies parsed with a list of steps supplied by the caller.
CustomBodies == Texts(1) \cup {ExampleBody, Str(<<"7", "/", "6", "/", "2", "5", " ">>) \o <<8364, 55>>}

Subjects == {<<>>, Str(<<"R", "e", "c", "e", "i", "p", "t">>)}

\* The lists of at most n of the three step functions.
RECURSIVE StepLists(_)
StepLists(n) ==
    IF n = 0 THEN {<<>>}
    ELSE StepLists(n - 1) \cup {Append(l, s) : l \in StepLists(n - 1), s \in StepNames}

\* The date strings normalize_formats is called with: three parts and two
\* separators, and two strings of another shape.
DateParts ==
    { Str(<<"2", "0", "2", "5">>), Str(<<"2", "0", "2", "4">>), Str(<<"0", "0", "0", "0">>),
      Str(<<"0", "7">>), Str(<<"7">>), Str(<<"1", "3">>), Str(<<"0", "2">>),
      Str(<<"2", "9">>), Str(<<"3", "1">>), Str(<<"6", "9">>), Str(<<" ", "5">>),
      Str(<<"x">>) }
DateSeps == {<<45>>, <<47>>}
NotADate == Str(<<"n", "o", "t", "-", "a", "-", "d", "a", "t", "e">>)
DateStrings ==
    {a \o s1 \o b \o s2 \o c : a \in DateParts, s1 \in DateSeps, b \in DateParts,
                               s2 \in DateSeps, c \in DateParts}
    \cup {<<>>, NotADate}

\* parse(raw_email) is called on a parser built with `arg`.
ParseCall(body, subject, arg) ==
    /\ call = "parse"
    /\ steps_arg = arg
    /\ context = [k \in {"raw"} |-> [subject |-> subject, body |-> body]]
    /\ step_ix = 1
    /\ ppc = "steps"
    /\ ran = <<>>
    /\ output = EmptyDict
    /\ raised = ""

\* The step function fn is called with the context ctx.
DirectCall(fn, ctx) ==
    /\ call = fn
    /\ steps_arg = NoSteps
    /\ context = ctx
    /\ step_ix = 0
    /\ ppc = "direct"
    /\ ran = <<>>
    /\ output = EmptyDict
    /\ raised = ""

PInit ==
    /\ WfIdle
    /\ RIdle
    /\ \/ \E body \in Bodies, subject \in Subjects : ParseCall(body, subject, NoSteps)
       \/ \E body \in CustomBodies, subject \in Subjects, l \in StepLists(MaxSteps) :
             ParseCall(body, subject, [given |-> TRUE, list |-> l])
       \/ \E text \in Bodies, subject \in Subjects :
             DirectCall("extract_fields",
                        [k \in {"body_text", "subject"} |->
                            IF k = "body_text" THEN text ELSE subject])
       \/ \E d \in DateStrings, c \in {None, Some(Str(<<"u", "s", "d">>))} :
             DirectCall("normalize_formats",
                        [k \in {"date", "currency"} |-> IF k = "date" THEN d ELSE c])

\* One turn of `for step in self.steps`: result = step(context);
\* context.update(result).  An exception of the step leaves parse.
parse_step ==
    /\ ppc = "steps"
    /\ step_ix <= Len(self_steps(steps_arg))
    /\ LET name == self_steps(steps_arg)[step_ix]
           result == ApplyStep(name, context)
       IN  /\ ran' = Append(ran, name)
           /\ IF result.raise = ""
              THEN /\ context' = Update(context, result.dict)
                   /\ step_ix' = step_ix + 1
                   /\ UNCHANGED <<ppc, raised>>
              ELSE /\ ppc' = "raised"
                   /\ raised' = result.raise
                   /\ UNCHANGED <<context, step_ix>>
    /\ UNCHANGED <<steps_arg, call, output, wfvars, rvars>>

\* After the last step: return build_parsed_expense(context).
parse_build ==
    /\ ppc = "steps"
    /\ step_ix > Len(self_steps(steps_arg))
    /\ LET result == build_parsed_expense(context)
       IN  /\ ppc' = IF result.raise = "" THEN "returned" ELSE "raised"
           /\ raised' = result.raise
           /\ output' = result.dict
    /\ UNCHANGED <<steps_arg, call, context, step_ix, ran, wfvars, rvars>>

\* A step function called on its own returns its dict or raises.
direct_call ==
    /\ ppc = "direct"
    /\ LET result == ApplyStep(call, context)
       IN  /\ ppc' = IF result.raise = "" THEN "returned" ELSE "raised"
           /\ raised' = result.raise
           /\ output' = IF result.raise = "" THEN result.dict ELSE EmptyDict
    /\ ran' = <<call>>
    /\ UNCHANGED <<steps_arg, call, context, step_ix, wfvars, rvars>>

PNext == parse_step \/ parse_build \/ direct_call

SpecParse == PInit /\ [][PNext]_vars

\* ------------------------------------------------------------------ claims

HoldingTasks == {i \in Items : Holding(i)}
Acknowledged(i) == i \in raw_emails /\ i \notin unread
\* The task of item i has started process_email.
Started(i) == pc[i] \in RunningPcs \cup TerminalPcs
\* The contract's classification: retryable iff the status is 429 or 5xx.
ContractRetryable(status) == status = 429 \/ (500 <= status /\ status <= 599)
Last(s) == s[Len(s)]

\* C1.  Failure isolation.  In a run where item k fails at the notify step
\* and the environment fails for no other item (parse returns an expense and
\* every external call succeeds for them), run() never raises, k stays unread
\* and its failure is printed once, and when run() has returned every other
\* item of the batch has one row, one notification, is marked read and has no
\* error printed; in every interleaving of the tasks.
FailureIsolation ==
    \A k \in raw_emails :
        (pc[k] = "failed_notify" /\ flaky = {k}) =>
            /\ run # "raised"
            /\ k \in unread
            /\ reports[k] = 1
            /\ \A j \in raw_emails \ {k} : pc[j] \notin FailedPcs /\ reports[j] = 0
            /\ run = "returned" =>
                  \A j \in raw_emails \ {k} :
                      /\ pc[j] = "acked"
                      /\ rows[j] = 1
                      /\ posts[j] = 1
                      /\ j \notin unread

\* A batch of three has returned: one item failed at notify after its retries
\* were used up, the two others are acknowledged.
FailureIsolationWitness ==
    /\ run = "returned"
    /\ Cardinality(raw_emails) = 3
    /\ \E k \in raw_emails :
          /\ flaky = {k}
          /\ pc[k] = "failed_notify"
          /\ attempt[k] = DefaultMaxRetries
          /\ \A j \in raw_emails \ {k} : pc[j] = "acked"

\* C2.  Concurrency cap.  In every state at most SemCap (5) tasks are inside
\* process_email, whatever the batch size, and the tasks dispatched are
\* exactly the fetched items, one task each.
ConcurrencyCap ==
    /\ Cardinality(HoldingTasks) <= SemCap
    /\ {i \in Items : pc[i] # "none"} =
          (IF run \in {"gather", "returned"} THEN raw_emails ELSE {})

\* Five tasks hold a slot while a sixth waits for one.
ConcurrencyCapWitness ==
    /\ Cardinality(HoldingTasks) = SemCap
    /\ \E i \in raw_emails : pc[i] = "queued"

\* The state part of C3: what each position of a task says about the steps
\* taken for its item.
StepOrderInv ==
    \A i \in Items :
        /\ Acknowledged(i) => posts[i] >= 1
        /\ posts[i] >= 1 => rows[i] >= 1
        /\ rows[i] >= 1 => i \in parsed
        /\ pc[i] \in {"none", "queued", "failed_parse"} =>
              i \notin parsed /\ rows[i] = 0 /\ posts[i] = 0
        /\ pc[i] \in {"open", "append", "appendSleep", "failed_record"} =>
              i \in parsed /\ rows[i] = 0 /\ posts[i] = 0 /\ ~Acknowledged(i)
        /\ pc[i] \in {"post", "slackSleep", "failed_notify"} =>
              rows[i] = 1 /\ posts[i] = 0 /\ ~Acknowledged(i)
        /\ pc[i] = "failed_ack" => rows[i] = 1 /\ posts[i] = 1 /\ ~Acknowledged(i)
        /\ pc[i] = "acked" <=> Acknowledged(i)

\* The step part of C3: a failed task takes no further step.
FailedIsTerminal ==
    \A i \in Items :
        pc[i] \in FailedPcs =>
            /\ pc'[i] = pc[i]
            /\ rows'[i] = rows[i]
            /\ posts'[i] = posts[i]
            /\ (i \in unread') = (i \in unread)
            /\ (i \in parsed') = (i \in parsed)

\* C3.  Per-item step order.  The steps of an item occur only in the order
\* parse, record, notify, acknowledge: record starts only after parse returned
\* an expense, notify only after record returned, acknowledge only after
\* notify returned; so acknowledged implies notified implies recorded implies
\* parsed.  A failure at any step ends the task in a failed state that it
\* never leaves and after which no step is taken for the item.
StepOrder == []StepOrderInv /\ [][FailedIsTerminal]_vars

\* One item went through all four steps; another was recorded and then failed
\* at notify.
StepOrderWitness ==
    \E i, j \in raw_emails :
        /\ pc[i] = "acked" /\ rows[i] = 1 /\ posts[i] = 1
        /\ pc[j] = "failed_notify" /\ rows[j] = 1

\* C4.  Retry classification, as claimed for both clients: after a failed
\* attempt made while fewer than max_retries retries have been made, a further
\* attempt follows if and only if the status is 429 or in 500..599.
RetryIffRetryable ==
    (rpc \in {"sleep", "raised"} /\ rattempt < max_retries) =>
        (rpc = "sleep" <=> ContractRetryable(Last(seen)))

\* C5.  Retry bound, as claimed for both clients: a call never makes more than
\* max_retries + 1 attempts; one whose attempts all fail with retryable errors
\* raises after exactly max_retries + 1 attempts and max_retries delays; one
\* that returns on attempt j has made j - 1 delays; [500, 500, 200] with
\* max_retries = 3 gives 2 delays and success, and [429, 429, 429, 429]
\* surfaces the error of the 4th attempt.
RetryBound ==
    /\ Len(seen) <= max_retries + 1
    /\ (rpc = "raised" /\ \A n \in 1..Len(seen) : ContractRetryable(seen[n])) =>
          Len(seen) = max_retries + 1 /\ Len(delays) = max_retries
    /\ rpc = "returned" => Len(seen) >= 1 /\ Len(delays) = Len(seen) - 1
    /\ (max_retries = 3 /\ seen = <<500, 500, 200>>) =>
          rpc = "returned" /\ Len(delays) = 2
    /\ (max_retries = 3 /\ seen # <<>> /\ \A n \in 1..Len(seen) : seen[n] = 429) =>
          IF Len(seen) = 4 THEN rpc = "raised" ELSE rpc \in {"sleep", "call"}

\* C6.  Fatal errors are not retried, as claimed for both clients: an attempt
\* that fails with no status code, or with one that is neither 429 nor in
\* 500..599, is the last attempt; the error is raised with no delay after it.
FatalNotRetried ==
    \A n \in 1..Len(seen) :
        (seen[n] # OK /\ ~ContractRetryable(seen[n])) =>
            /\ n = Len(seen)
            /\ rpc = "raised"
            /\ Len(delays) = n - 1

\* C7.  A retry delay blocks only the calling task, as claimed: while a task
\* waits out a retry delay of append_row or of send_notification, every other
\* task that holds a slot can take its next step.
DelayBlocksOnlyCaller ==
    \A i, j \in Items :
        (i # j /\ pc[i] \in {"appendSleep", "slackSleep"} /\ Holding(j)) =>
            ENABLED TaskStep(j)

\* C8.  Run completion.  After a successful fetch run() eventually returns;
\* when it has returned every dispatched item is acknowledged, or failed with
\* its error printed, and no task is still in progress.
RunCompletion ==
    /\ (listing = "ok") ~> (run = "returned")
    /\ [](run = "returned" =>
            /\ loop_blocked = 0
            /\ \A i \in raw_emails :
                  \/ pc[i] = "acked" /\ reports[i] = 0
                  \/ pc[i] \in FailedPcs /\ reports[i] = 1)

\* run() has returned from a batch in which one item was acknowledged and
\* another failed.
RunCompletionWitness ==
    /\ run = "returned"
    /\ \E i, j \in raw_emails : pc[i] = "acked" /\ pc[j] \in FailedPcs

\* C9.  Validation failure precedes all side effects.  When parse raised for
\* an item (its task started and parse returned no expense), the task has
\* ended: no row is appended, no notification is sent and the message is not
\* marked read, in this and every later state, and the failure is printed
\* once, for that item; an error is printed only for an item that failed.
ParseFailureNoSideEffect ==
    /\ \A i \in raw_emails :
          (Started(i) /\ i \notin parsed) =>
              /\ pc[i] = "failed_parse"
              /\ rows[i] = 0
              /\ posts[i] = 0
              /\ i \in unread
              /\ reports[i] = 1
    /\ \A j \in Items : reports[j] > 0 => pc[j] \in FailedPcs

\* run() has returned; parse raised for one item, and another item of the
\* batch went through all four steps.
ParseFailureWitness ==
    /\ run = "returned"
    /\ \E i, j \in raw_emails :
          /\ pc[i] = "failed_parse" /\ reports[i] = 1
          /\ pc[j] = "acked" /\ reports[j] = 0

\* C10.  Batch fetch failure aborts the run.  When the listing call failed,
\* run() has raised, no task exists, and no item is parsed, recorded, notified
\* or acknowledged; no slot was taken.
FetchFailureAborts ==
    listing = "failed" =>
        /\ run = "raised"
        /\ raw_emails = {}
        /\ parsed = {}
        /\ sem = SemCap
        /\ \A i \in Items :
              pc[i] = "none" /\ rows[i] = 0 /\ posts[i] = 0 /\ reports[i] = 0
        /\ unread = 1..Cardinality(unread)

\* The listing call failed on a mailbox with unread messages.
FetchFailureWitness ==
    /\ listing = "failed"
    /\ run = "raised"
    /\ Cardinality(unread) >= 2

\* C11.  Empty batch.  When the fetch returned an empty batch, run() has
\* returned in that same step: nothing was parsed, no slot was taken, no task
\* exists, no sheet was opened, no row, notification or error line was written,
\* and the mailbox is what it was before the fetch and stays so.
EmptyBatchInv ==
    (listing = "ok" /\ raw_emails = {}) =>
        /\ run = "returned"
        /\ parsed = {}
        /\ sem = SemCap
        /\ worksheet_handle = FALSE
        /\ loop_blocked = 0
        /\ \A i \in Items :
              pc[i] = "none" /\ rows[i] = 0 /\ posts[i] = 0 /\ reports[i] = 0

EmptyBatchFrame == (listing' = "ok" /\ raw_emails' = {}) => unread' = unread

EmptyBatch == []EmptyBatchInv /\ [][EmptyBatchFrame]_vars

\* The fetch of an empty mailbox has returned an empty batch.
EmptyBatchWitness ==
    /\ listing = "ok"
    /\ raw_emails = {}
    /\ unread = {}
    /\ run = "returned"

\* C12.  No whole-task retry and no compensation.  An item that has left the
\* queue never enters it again, so it has one task and parse runs once for it;
\* parse runs only as the first step of that task; a failed item takes no
\* further step; the attempt counter of a call grows only after a retry delay
\* inside append_row or send_notification; rows, notifications, error lines,
\* the parsed mark and the read mark are never taken back, and those of a
\* failed item do not change; and an item has at most one row, one
\* notification and one error line.
NoRequeue ==
    \A i \in Items :
        (pc'[i] # pc[i] \/ attempt'[i] # attempt[i]) =>
            /\ pc[i] \notin FailedPcs
            /\ pc'[i] = "queued" => pc[i] = "none"
            /\ pc'[i] = "failed_parse" => pc[i] = "queued"
            /\ attempt'[i] > attempt[i] => pc[i] \in {"appendSleep", "slackSleep"}

EffectsKept ==
    \A i \in Items :
        /\ ((i \in parsed') # (i \in parsed)) => pc[i] = "queued" /\ i \in parsed'
        /\ rows'[i] >= rows[i]
        /\ posts'[i] >= posts[i]
        /\ reports'[i] >= reports[i]
        /\ i \notin unread => i \notin unread'
        /\ pc[i] \in FailedPcs =>
              rows'[i] = rows[i] /\ posts'[i] = posts[i] /\ reports'[i] = reports[i]

NoRetryStep ==
    /\ NoRequeue
    /\ <<parsed, rows, posts, reports, unread>>' # <<parsed, rows, posts, reports, unread>>
          => EffectsKept

NoWholeTaskRetry ==
    /\ [][NoRetryStep]_vars
    /\ [](\A i \in Items : rows[i] <= 1 /\ posts[i] <= 1 /\ reports[i] <= 1)

\* run() has returned; an item whose notification needed a retry failed at
\* the acknowledge step and keeps its row and its notification.
NoWholeTaskRetryWitness ==
    /\ run = "returned"
    /\ \E i \in raw_emails :
          /\ pc[i] = "failed_ack"
          /\ attempt[i] >= 1
          /\ rows[i] = 1
          /\ posts[i] = 1
          /\ i \in unread

\* C13.  Error reporting and run exit.  An item has exactly one error line
\* when its task failed (at parse, record, notify or acknowledge) and none
\* otherwise; run() has raised exactly when the listing call failed; it
\* returns only after a successful listing, and once every task has ended
\* nothing but the return of run() is left, whatever the items' outcomes.
ErrorReporting ==
    /\ \A i \in Items : reports[i] = (IF pc[i] \in FailedPcs THEN 1 ELSE 0)
    /\ (run = "raised") <=> (listing = "failed")
    /\ run = "returned" => listing = "ok"
    /\ (listing = "ok" /\ run # "returned") =>
          /\ run = "gather"
          /\ GatherDone => ENABLED run_return

\* run() has returned from a batch of which one item failed at record,
\* another at acknowledge, and a third was acknowledged.
ErrorReportingWitness ==
    /\ run = "returned"
    /\ listing = "ok"
    /\ \E i, j, k \in raw_emails :
          /\ pc[i] = "failed_record" /\ reports[i] = 1
          /\ pc[j] = "failed_ack" /\ reports[j] = 1
          /\ pc[k] = "acked" /\ reports[k] = 0

\* C14.  No shared state between items except the semaphore, as claimed: a
\* step of one task never writes the connector's cached worksheet handle
\* while another task has yet to read it (queued: record_expense will test
\* it) or to write and read it (open: its own open_sheet will store it and
\* append_row is called with what the attribute then holds).
NoSharedItemState ==
    [][worksheet_handle' # worksheet_handle =>
          \A j \in raw_emails : pc'[j] = pc[j] => pc[j] \notin {"queued", "open"}]_vars

\* The shape YYYY-MM-DD, and an ISO calendar date.
IsoForm(d) ==
    /\ Len(d) = 10
    /\ \A k \in {1, 2, 3, 4, 6, 7, 9, 10} : AsciiDigitIn(d[k], 0, 9)
    /\ d[5] = 45
    /\ d[8] = 45
IsIsoDate(d) == IsoForm(d) /\ strptime(d, DateFormats[1]).ok
\* A 3-letter uppercase code.
IsCurrencyCode(c) == Len(c) = 3 /\ \A k \in 1..3 : 65 <= c[k] /\ c[k] <= 90
IsPrefix(a, b) == Len(a) <= Len(b) /\ a = SubSeq(b, 1, Len(a))
\* What stands between the first `Vendor:` of a text and the end of its line.
VendorMarker == Str(<<"V", "e", "n", "d", "o", "r", ":">>)
HasVendorMarker(t) == \E p \in 1..Len(t) : HasAt(t, p, VendorMarker)
RestOfMarkerLine(t) ==
    LET q == Least({p \in 1..Len(t) : HasAt(t, p, VendorMarker)}) + Len(VendorMarker)
    IN  Slice(t, q, ClassEnd(t, q, ".") - 1)

\* C15.  The field extractor never raises, as claimed: a call of
\* extract_fields with a body text and a subject raises no exception, and what
\* it returns has all six fields.
ExtractNeverRaises ==
    call = "extract_fields" =>
        /\ raised = ""
        /\ ppc = "returned" => DOMAIN output = ExpenseFields

\* C16.  Expense validity, as claimed: every expense that parse returns under
\* the default steps has an ISO calendar date, a vendor that is not empty, an
\* amount that is not negative and a 3-letter uppercase currency code (a
\* context that cannot give these raises ValidationError instead).
ExpenseValid ==
    (call = "parse" /\ ~steps_arg.given /\ ppc = "returned") =>
        /\ IsIsoDate(output["date"])
        /\ output["vendor"] # <<>>
        /\ output["amount"] >= 0
        /\ output["currency"].some
        /\ IsCurrencyCode(output["currency"].val)

\* C17.  The end-to-end example, as claimed: parse of the example body under
\* the default steps returns date 2025-07-06, vendor Example Corp, amount
\* 42.99, currency USD, category Meals, description Lunch with client.
EndToEndExample ==
    (call = "parse" /\ ~steps_arg.given /\ context["raw"].body = ExampleBody
     /\ ppc # "steps") =>
        /\ ppc = "returned"
        /\ output["date"] = Str(<<"2", "0", "2", "5", "-", "0", "7", "-", "0", "6">>)
        /\ output["vendor"] =
              Str(<<"E", "x", "a", "m", "p", "l", "e", " ", "C", "o", "r", "p">>)
        /\ output["amount"] = 4299
        /\ output["currency"] = Some(Str(<<"U", "S", "D">>))
        /\ output["category"] = Some(Str(<<"M", "e", "a", "l", "s">>))
        /\ output["description"] =
              Some(Str(<<"L", "u", "n", "c", "h", " ", "w", "i", "t", "h", " ",
                         "c", "l", "i", "e", "n", "t">>))

\* C18.  A custom list of steps is run as given, as claimed: the steps parse
\* has called are a prefix of the list the caller supplied (of the default
\* list when none was supplied), the whole list when parse got to build the
\* expense; and a key written by two steps holds what the later one wrote.
StepsAsGiven ==
    call = "parse" =>
        LET supplied == IF steps_arg.given THEN steps_arg.list ELSE DefaultSteps
        IN  /\ IsPrefix(ran, supplied)
            /\ (ppc = "returned" \/ raised = "ValidationError") => ran = supplied
            /\ (ppc = "returned" /\ ran # <<>> /\ Last(ran) = "extract_fields") =>
                  output["date"] = DateSearch(context["body_text"])

\* C19.  Vendor extraction, as claimed: for a text that contains `Vendor:`,
\* extract_fields returns, and the vendor is what stands between the marker
\* and the end of its line, trimmed; when that is nothing but whitespace the
\* vendor is empty or the fallback (the subject, or "Unknown"), never text of
\* a following line.
VendorExtraction ==
    (/\ call = "extract_fields"
     /\ ppc # "direct"
     /\ HasVendorMarker(context["body_text"])) =>
        /\ ppc = "returned"
        /\ IF strip(RestOfMarkerLine(context["body_text"])) # <<>>
           THEN output["vendor"] = strip(RestOfMarkerLine(context["body_text"]))
           ELSE output["vendor"] \in {<<>>, context["subject"], Unknown}

\* C20.  Date normalization fixed points.  normalize_formats does not raise
\* for any date string; it returns the date unchanged when it has the shape
\* YYYY-MM-DD and when it parses under none of the three formats; and
\* normalizing what it returned gives that again.
DateFixedPoints ==
    call = "normalize_formats" =>
        /\ raised = ""
        /\ ppc = "returned" =>
              /\ IsoForm(context["date"]) => output["date"] = context["date"]
              /\ (\A f \in 1..Len(DateFormats) :
                      ~strptime(context["date"], DateFormats[f]).ok) =>
                    output["date"] = context["date"]
              /\ normalize_date(output["date"], 1) = output["date"]

\* normalize_formats has returned 2024-02-29 for the date 2024-02-29.
DateFixedPointsWitness ==
    /\ call = "normalize_formats"
    /\ ppc = "returned"
    /\ context["date"] = Str(<<"2", "0", "2", "4", "-", "0", "2", "-", "2", "9">>)
    /\ output["date"] = context["date"]

\* C21.  Reprocessing across runs.  An item that the first run recorded and
\* whose notify or acknowledge step failed has one row and is still unread
\* when the second run starts; the second run fetches it again unless the
\* listing or the get call fails for it, parse returns its expense again, and
\* once its record step has returned the sheet holds two rows for it; when
\* the environment does not fail for it in the second run, it has two rows
\* when that run returns.  An item acknowledged in the first run is not in
\* the second run's batch, has no task, and gets no row and no notification.
Reprocessing ==
    prev.done =>
        \A i \in Items :
            /\ prev.pc[i] \in {"failed_notify", "failed_ack"} =>
                  /\ prev.rows[i] = 1
                  /\ i \in prev.unread
                  /\ (listing = "ok" /\ i \notin flaky) => i \in raw_emails
                  /\ pc[i] # "failed_parse"
                  /\ pc[i] \in {"post", "slackSleep", "failed_notify", "failed_ack",
                                "acked"} => rows[i] = 2
                  /\ (run = "returned" /\ listing = "ok" /\ i \notin flaky) =>
                        rows[i] = 2 /\ pc[i] = "acked"
            /\ prev.pc[i] = "acked" =>
                  /\ i \notin unread
                  /\ i \notin raw_emails
                  /\ pc[i] = "none"
                  /\ i \notin parsed
                  /\ rows[i] = prev.rows[i]
                  /\ posts[i] = prev.posts[i]

\* The second run has returned: the item whose notification failed in the
\* first run has a second row, the item acknowledged in the first run was
\* left alone.
ReprocessingWitness ==
    /\ prev.done
    /\ run = "returned"
    /\ \E i, j \in Items :
          /\ prev.pc[i] = "failed_notify" /\ rows[i] = 2 /\ pc[i] = "acked"
          /\ prev.pc[j] = "acked" /\ rows[j] = 1 /\ posts[j] = 1 /\ pc[j] = "none"

\* C22.  Limiter slot conservation.  In every state of a run the free slots
\* plus the tasks inside process_email (from the entry of sem_task's
\* `async with` to Acknowledged or Failed, the retry delays of append_row and
\* of send_notification included) are SemCap; the number of free slots is
\* never negative; a task that is waiting, acknowledged or failed holds none;
\* and before the dispatch and once run() has ended all SemCap slots are free.
SlotConservation ==
    /\ sem \in 0..SemCap
    /\ sem + Cardinality({i \in Items : pc[i] \in {"open", "append", "appendSleep",
                                                   "post", "slackSleep"}}) = SemCap
    /\ \A i \in Items :
          Holding(i) <=> (i \in raw_emails /\ pc[i] \notin TerminalPcs \cup {"queued"})
    /\ run \in {"start", "returned", "raised"} => sem = SemCap /\ HoldingTasks = {}

\* One task is in its second retry delay of append_row and holds the only
\* slot taken; a task that failed and one that is acknowledged gave theirs back.
SlotConservationWitness ==
    /\ run = "gather"
    /\ sem = SemCap - 1
    /\ \E i, j, k \in raw_emails :
          /\ pc[i] = "appendSleep" /\ attempt[i] = 1
          /\ pc[j] \in FailedPcs
          /\ pc[k] = "acked"

\* The counter and the delays of a call made alone: one delay per retry, the
\* n-th delay (n from 0) is backoff_factor * 2^n, and the counter is the
\* number of retries made, at most max_retries.
ScheduleInv ==
    /\ rattempt = Len(delays)
    /\ rattempt \in 0..max_retries
    /\ \A n \in 0..(Len(delays) - 1) : delays[n + 1] = BackoffTenths * 2^n
    /\ Len(seen) \in {rattempt, rattempt + 1}

\* A step of a call made alone: the counter changes only by the retry that
\* follows a delay, by exactly 1, and that delay is the next of the schedule.
ScheduleStep ==
    (rattempt' # rattempt \/ delays' # delays) =>
        /\ rpc = "sleep"
        /\ rattempt' = rattempt + 1
        /\ delays' = Append(delays, BackoffTenths * 2^rattempt)

\* A step of a run: the counter of the call item i is in changes only in a
\* step of i's own task; it grows by exactly 1, after a delay of that call; it
\* is 0 when append_row and when send_notification are entered.
CounterStep ==
    \A i \in Items :
        /\ attempt'[i] # attempt[i] =>
              /\ pc'[i] # pc[i]
              /\ \/ pc[i] = "appendSleep" /\ pc'[i] = "append"
                    /\ attempt'[i] = attempt[i] + 1
                 \/ pc[i] = "slackSleep" /\ pc'[i] = "post"
                    /\ attempt'[i] = attempt[i] + 1
                 \/ pc[i] = "append" /\ pc'[i] = "post" /\ attempt'[i] = 0
        /\ (pc[i] \in {"queued", "open"} /\ pc'[i] = "append") => attempt'[i] = 0
        /\ (pc[i] = "append" /\ pc'[i] = "post") => attempt'[i] = 0
        /\ (pc[i] \in {"appendSleep", "slackSleep"} /\ pc'[i] # pc[i]) =>
              attempt'[i] = attempt[i] + 1

\* C23.  Backoff schedule per call.  Within one call of append_row or of
\* send_notification the attempt counter starts at 0, grows by exactly 1 per
\* retry and never exceeds max_retries, and the delay before retry n (from 0)
\* is backoff_factor * 2^n, so the delays of a call are backoff_factor times
\* 1, 2, 4, ... in that order; the counter of a call changes in no step of
\* another call, of the same item or of an item running at the same time.
BackoffSchedule ==
    /\ [](ScheduleInv /\ \A i \in Items : attempt[i] \in 0..DefaultMaxRetries)
    /\ [][ScheduleStep /\ CounterStep]_vars

\* send_notification on a connector with max_retries = 3 slept 0.5, 1 and 2
\* seconds and raised the error of its fourth attempt.
BackoffScheduleWitness ==
    /\ client = "slack"
    /\ max_retries = 3
    /\ rpc = "raised"
    /\ rattempt = 3
    /\ delays = <<5, 10, 20>>

\* The tasks that are inside open_sheet: each of them called it.
Opening == {i \in Items : pc[i] = "open"}

\* C24.  The worksheet is opened at most once per connector, as claimed: of
\* the tasks that call record_expense on a connector without a cached handle
\* at most one is ever inside open_sheet, and none is once a handle is cached.
OpenedOnce ==
    /\ Cardinality(Opening) <= 1
    /\ worksheet_handle => Opening = {}

\* C25.  No listed message is lost silently, as claimed.  The listing call
\* returns the unread messages, and a message stays unread until its own
\* acknowledge step: once the fetch has returned, every message still unread
\* is a RawEmail of the batch and has a task; otherwise run() has raised.
NoListedMessageLost ==
    /\ listing = "ok" => \A i \in unread : i \in raw_emails /\ pc[i] # "none"
    /\ listing = "failed" => run = "raised"

\* C26.  A sheet append reports success only if a row was appended, as
\* claimed for every integer max_retries: a call that returned made at least
\* one attempt, its last attempt succeeded and no other did; and every call
\* that has ended, of append_row as of send_notification, made an attempt.
SuccessMeansAppended ==
    /\ rpc = "returned" =>
          /\ seen # <<>>
          /\ Last(seen) = OK
          /\ Cardinality({n \in 1..Len(seen) : seen[n] = OK}) = 1
    /\ rpc \in {"returned", "raised"} => Len(seen) >= 1

====
